---- MODULE Spec2Model ----
(***************************************************************************)
(* A model of apigee-backup (src/main.go): the sequential run loop of      *)
(* main, backupProject, the retention sweep cleanupOldBackups with         *)
(* isOlderThanRetention, the export error classifier parseError and the    *)
(* per-project and final notifications.                                    *)
(*                                                                         *)
(* Paths, file names and dates are sequences of one-character strings, so  *)
(* that slicing by length, filepath.Base and time.Parse are computed as    *)
(* the code computes them.  Error texts are sequences of fragments; a      *)
(* fragment is the unit strings.Contains looks for.                        *)
(***************************************************************************)
EXTENDS Integers, Sequences, FiniteSets, TLC

(***************************************************************************)
(* Bounds of the model.                                                    *)
(***************************************************************************)
MaxRuns == 2
MaxSeed == 2

(***************************************************************************)
(* Program constants.                                                      *)
(***************************************************************************)
defaultRetentionDays == 7

(***************************************************************************)
(* Characters and strings.                                                 *)
(***************************************************************************)
Alphabet ==
  << "-", ".", "/", "0", "1", "2", "3", "4", "5", "6", "7", "8", "9", ":",
     "_", "a", "b", "c", "d", "e", "f", "g", "h", "i", "j", "k", "l", "m",
     "n", "o", "p", "q", "r", "s", "t", "u", "v", "w", "x", "y", "z" >>

Ord(c) == CHOOSE k \in 1..Len(Alphabet) : Alphabet[k] = c

Digits == << "0", "1", "2", "3", "4", "5", "6", "7", "8", "9" >>

IsDigit(c) == \E k \in 1..10 : Digits[k] = c

DigitVal(c) == (CHOOSE k \in 1..10 : Digits[k] = c) - 1

\* s[lo:hi] of Go, 0-based, for 0 <= lo <= hi <= len(s)
Slice(s, lo, hi) == [k \in 1..(hi - lo) |-> s[lo + k]]

HasPrefix(s, p) == Len(s) >= Len(p) /\ Slice(s, 0, Len(p)) = p

TrimPrefix(s, p) == Slice(s, Len(p), Len(s))

\* byte-wise order of two strings
RECURSIVE LexLess(_, _)
LexLess(s, t) ==
  IF t = << >> THEN FALSE
  ELSE IF s = << >> THEN TRUE
  ELSE IF s[1] # t[1] THEN Ord(s[1]) < Ord(t[1])
  ELSE LexLess(Tail(s), Tail(t))

\* the strings of a finite set in byte-wise order
RECURSIVE SortedSeq(_)
SortedSeq(S) ==
  IF S = {} THEN << >>
  ELSE LET m == CHOOSE x \in S : \A y \in S \ {x} : LexLess(x, y)
       IN  << m >> \o SortedSeq(S \ {m})

\* strings.Contains over fragments
Contains(text, fragment) == \E k \in 1..Len(text) : text[k] = fragment

(***************************************************************************)
(* Dates (package time): days since 1970-01-01 and the civil calendar.     *)
(***************************************************************************)
SecondsPerDay == 24 * 60 * 60

IsLeap(y) == (y % 4 = 0 /\ y % 100 # 0) \/ y % 400 = 0

DaysIn(y, m) ==
  IF m = 2 THEN (IF IsLeap(y) THEN 29 ELSE 28)
  ELSE IF m \in {4, 6, 9, 11} THEN 30 ELSE 31

DaysFromCivil(y0, m, d) ==
  LET y   == IF m <= 2 THEN y0 - 1 ELSE y0
      era == y \div 400
      yoe == y - era * 400
      mp  == IF m > 2 THEN m - 3 ELSE m + 9
      doy == (153 * mp + 2) \div 5 + d - 1
      doe == yoe * 365 + yoe \div 4 - yoe \div 100 + doy
  IN  era * 146097 + doe - 719468

CivilFromDays(days) ==
  LET z   == days + 719468
      era == z \div 146097
      doe == z - era * 146097
      yoe == (doe - doe \div 1460 + doe \div 36524 - doe \div 146096) \div 365
      doy == doe - (365 * yoe + yoe \div 4 - yoe \div 100)
      mp  == (5 * doy + 2) \div 153
      d   == doy - (153 * mp + 2) \div 5 + 1
      m   == IF mp < 10 THEN mp + 3 ELSE mp - 9
      y   == yoe + era * 400 + (IF m <= 2 THEN 1 ELSE 0)
  IN  [y |-> y, m |-> m, d |-> d]

Pad2(n) == << Digits[((n \div 10) % 10) + 1], Digits[(n % 10) + 1] >>

DateStr(y, m, d) == Pad2(y \div 100) \o Pad2(y % 100) \o << "-" >> \o Pad2(m)
                      \o << "-" >> \o Pad2(d)

\* t.Format("2006-01-02") of an instant in seconds (the local zone is UTC)
FormatDate(t) ==
  LET c == CivilFromDays(t \div SecondsPerDay) IN DateStr(c.y, c.m, c.d)

Num2(s, k) == 10 * DigitVal(s[k]) + DigitVal(s[k + 1])

\* time.Parse("2006-01-02", s): the instant (midnight UTC) and the error
ParseDate(s) ==
  IF /\ Len(s) = 10
     /\ \A k \in {1, 2, 3, 4, 6, 7, 9, 10} : IsDigit(s[k])
     /\ s[5] = "-"
     /\ s[8] = "-"
  THEN LET y == 100 * Num2(s, 1) + Num2(s, 3)
           m == Num2(s, 6)
           d == Num2(s, 9)
       IN  IF m \in 1..12 /\ d \in 1..DaysIn(y, m)
           THEN [err |-> FALSE, t |-> DaysFromCivil(y, m, d) * SecondsPerDay]
           ELSE [err |-> TRUE, t |-> 0]
  ELSE [err |-> TRUE, t |-> 0]

(***************************************************************************)
(* Paths and the object store behind gsutil.  The store holds object       *)
(* names (keys) of the one bucket the run is given.                        *)
(***************************************************************************)
GsScheme == << "g", "s", ":", "/", "/" >>
Backup_  == << "b", "a", "c", "k", "u", "p", "_" >>
DotZip   == << ".", "z", "i", "p" >>
Slash    == << "/" >>
gcsBucket == << "b" >>
PA == << "p", "a" >>
PB == << "p", "b" >>

\* fmt.Sprintf("backup_%s_%s.zip", ENV, today)
ArchiveName(env, date) == Backup_ \o env \o << "_" >> \o date \o DotZip

\* the object name of gs://<bucket>/<env>/<file>
Key(env, file) == env \o Slash \o file

\* fmt.Sprintf("gs://%s/%s", gcsBucket, key)
Url(key) == GsScheme \o gcsBucket \o Slash \o key

KeyOfUrl(url) == TrimPrefix(url, GsScheme \o gcsBucket \o Slash)

LastSlash(s) ==
  IF \E k \in 1..Len(s) : s[k] = "/"
  THEN CHOOSE k \in 1..Len(s) : s[k] = "/" /\ \A j \in (k + 1)..Len(s) : s[j] # "/"
  ELSE 0

RECURSIVE TrimSlashes(_)
TrimSlashes(s) ==
  IF s # << >> /\ s[Len(s)] = "/" THEN TrimSlashes(SubSeq(s, 1, Len(s) - 1)) ELSE s

\* filepath.Base
Base(path) ==
  IF path = << >> THEN << "." >>
  ELSE LET t == TrimSlashes(path)
       IN  IF t = << >> THEN << "/" >> ELSE Slice(t, LastSlash(t), Len(t))

\* what "gsutil ls gs://<bucket>/<prefix>" shows for one object under the
\* prefix: the object, or the sub-folder it lies in
LsEntry(key, prefix) ==
  LET rest == TrimPrefix(key, prefix)
  IN  IF \E k \in 1..Len(rest) : rest[k] = "/"
      THEN prefix \o Slice(rest, 0, CHOOSE k \in 1..Len(rest) :
                                      rest[k] = "/" /\ \A j \in 1..(k - 1) : rest[j] # "/")
      ELSE key

\* the lines "gsutil ls gs://<bucket>/<prefix>" prints, in name order
GsutilLs(objects, prefix) ==
  SortedSeq({Url(LsEntry(k, prefix)) : k \in {o \in objects : HasPrefix(o, prefix)}})

(***************************************************************************)
(* isOlderThanRetention: base[len("backup_<env>_") : len(base)-len(".zip")]*)
(* is parsed as a date.  A slice with low > high is a run-time panic.      *)
(***************************************************************************)
isOlderThanRetention(gcsPath, cutoffDate, env) ==
  LET base == Base(gcsPath)
      lo   == Len(Backup_ \o env \o << "_" >>)
      hi   == Len(base) - Len(DotZip)
  IN  IF lo > hi
      THEN [panic |-> TRUE, older |-> FALSE]
      ELSE LET backupDate == ParseDate(Slice(base, lo, hi))
           IN  IF backupDate.err
               THEN [panic |-> FALSE, older |-> FALSE]
               ELSE [panic |-> FALSE, older |-> backupDate.t < cutoffDate]

(***************************************************************************)
(* parseError.  A captured error stream is its text (fragments) together   *)
(* with what json.Unmarshal makes of that text.                            *)
(***************************************************************************)
FailedPrecondition == "FAILED_PRECONDITION"
UnauthorizedText   == "Unauthorized - the client must authenticate itself"

NotJSON == [valid |-> FALSE, errorIsObject |-> FALSE, hasStatus |-> FALSE,
            status |-> "", hasMessage |-> FALSE, message |-> << >>]

ErrorObject(hasStatus, status, hasMessage, message) ==
  [valid |-> TRUE, errorIsObject |-> TRUE, hasStatus |-> hasStatus,
   status |-> status, hasMessage |-> hasMessage, message |-> message]

StderrSamples ==
  { \* {"error":{"status":"FAILED_PRECONDITION"}}
    [text |-> << "{error:{status:", FailedPrecondition, "}}" >>,
     json |-> ErrorObject(TRUE, FailedPrecondition, FALSE, << >>)],
    \* {"error":{"code":400,"message":"org is locked","status":"FAILED_PRECONDITION"}}
    [text |-> << "{error:{code:400,message:", "org is locked", ",status:",
                 FailedPrecondition, "}}" >>,
     json |-> ErrorObject(TRUE, FailedPrecondition, TRUE, << "org is locked" >>)],
    \* {"error":{"message":"quota exceeded"}}
    [text |-> << "{error:{message:", "quota exceeded", "}}" >>,
     json |-> ErrorObject(FALSE, "", TRUE, << "quota exceeded" >>)],
    \* {"error":{"message":"quota exceeded","status":"RESOURCE_EXHAUSTED"}}
    [text |-> << "{error:{message:", "quota exceeded", ",status:",
                 "RESOURCE_EXHAUSTED", "}}" >>,
     json |-> ErrorObject(TRUE, "RESOURCE_EXHAUSTED", TRUE, << "quota exceeded" >>)],
    \* {"error":{"message":"FAILED_PRECONDITION: org is locked"}}
    [text |-> << "{error:{message:", FailedPrecondition, ": org is locked", "}}" >>,
     json |-> ErrorObject(FALSE, "", TRUE,
                          << FailedPrecondition, ": org is locked" >>)],
    \* {"error":"boom"}: valid JSON whose error is no object
    [text |-> << "{error:boom}" >>,
     json |-> [valid |-> TRUE, errorIsObject |-> FALSE, hasStatus |-> FALSE,
               status |-> "", hasMessage |-> FALSE, message |-> << >>]],
    \* plain text naming the status, not JSON
    [text |-> << "Error: 400 ", FailedPrecondition, " org is locked" >>,
     json |-> NotJSON],
    \* the unauthorized text inside more text
    [text |-> << "Error: 401 ", UnauthorizedText, " (token expired)" >>,
     json |-> NotJSON],
    \* other text
    [text |-> << "connection refused" >>, json |-> NotJSON],
    \* nothing captured
    [text |-> << >>, json |-> NotJSON] }

parseError(stderr) ==
  LET raw == IF Contains(stderr.text, UnauthorizedText)
             THEN << UnauthorizedText >>
             ELSE stderr.text
  IN  IF stderr.json.valid /\ stderr.json.errorIsObject
      THEN IF stderr.json.hasStatus /\ stderr.json.status = FailedPrecondition
           THEN << FailedPrecondition,
                   " - Continuing without interrupting the process" >>
           ELSE IF stderr.json.hasMessage
                THEN stderr.json.message
                ELSE raw
      ELSE raw

\* variants of the test of line 167: equality instead of strings.Contains, and
\* the negation dropped
ExportFails_Exact(errorMessage) == errorMessage # << FailedPrecondition >>

ExportFails_Inverted(errorMessage) == Contains(errorMessage, FailedPrecondition)

\* the test of line 167: the project is failed unless the message names the status
ExportFails(errorMessage) == ~Contains(errorMessage, FailedPrecondition)

(***************************************************************************)
(* Inputs of the model.                                                    *)
(***************************************************************************)
\* the project files read by readProjectFile (order kept, duplicates kept)
ProjectLists == { << >>, << PA >>, << PA, PB >>, << PA, PA >>, << PB, PA >> }

\* --retention
RetentionChoices == { defaultRetentionDays, 30 }

\* the instants time.Now() shows to a run: 2024-03-01 00:00 and 2024-03-02 12:00
Clock ==
  LET d == DaysFromCivil(2024, 3, 1) * SecondsPerDay
  IN  { d, d + SecondsPerDay + SecondsPerDay \div 2 }

\* objects the bucket may hold before the first run
SeedObjects ==
  { Key(PA, ArchiveName(PA, DateStr(2024, 2, 20))),
    Key(PA, ArchiveName(PA, DateStr(2024, 2, 23))),
    Key(PA, ArchiveName(PA, DateStr(2024, 2, 30))),
    Key(PA, ArchiveName(PB, DateStr(2024, 1, 1))),
    Key(PA, DateStr(2024, 3, 1) \o << "/", "f" >>),
    Key(PA, << "l", "o", "g", "s", "/", "r" >>) }

\* http.Post: a transport error, a response outside the expected code, success
PostResults == { "error", "rejected", "ok" }

(***************************************************************************)
(* State.                                                                  *)
(***************************************************************************)
VARIABLES
  projects,             \* main: the project list
  retentionDays,        \* main: --retention
  webhookURL,           \* global: "" when no Discord webhook is configured
  workspaceWebhookURL,  \* global: "" when no Workspace webhook is configured
  run,                  \* which invocation of the program this is
  now,                  \* time.Now(): one instant for the whole invocation
  pc,                   \* where the process is
  idx,                  \* main: position of the range loop in projects
  statuses,             \* main: the outcome records so far
  lines,                \* cleanupOldBackups: the listed lines still to visit
  dirExists,            \* the file system: does /tmp/apigee_backup exist
  store,                \* the bucket: its object names
  calls,                \* the external calls of the current step of main, in order:
                        \*   those of the backupProject call under way or just
                        \*   returned, then those of sendFinalNotification
  uploaded              \* the uploads that succeeded, with their run

vars == << projects, retentionDays, webhookURL, workspaceWebhookURL, run, now,
           pc, idx, statuses, lines, dirExists, store, calls, uploaded >>

config == << projects, retentionDays, webhookURL, workspaceWebhookURL >>

project == projects[idx]

\* today := time.Now().Format("2006-01-02")
today == FormatDate(now)

\* cutoffDate := time.Now().AddDate(0, 0, -retentionDays)
cutoffDate == now - retentionDays * SecondsPerDay

NoIssue == << "no issue" >>

\* status := ProjectStatus{Project: project, Status: "Complete", Reason: "no issue"}
Complete(p) == [Project |-> p, Status |-> "Complete", Reason |-> NoIssue]

Failed(p, reason) == [Project |-> p, Status |-> "Failed", Reason |-> reason]

Init ==
  /\ projects \in ProjectLists
  /\ retentionDays \in RetentionChoices
  /\ webhookURL \in { "", "https://discord/hook" }
  /\ workspaceWebhookURL \in { "", "https://chat/hook" }
  /\ run = 1
  /\ now \in Clock
  /\ pc = IF projects = << >> THEN "final" ELSE "reset"
  /\ idx = 1
  /\ statuses = << >>
  /\ lines = << >>
  /\ dirExists = FALSE
  /\ store \in { S \in SUBSET SeedObjects : Cardinality(S) <= MaxSeed }
  /\ calls = << >>
  /\ uploaded = {}

\* backupProject returns st: main appends it and the range loop goes on
Return(st) ==
  /\ statuses' = Append(statuses, st)
  /\ idx' = idx + 1
  /\ pc' = IF idx < Len(projects) THEN "reset" ELSE "final"
  /\ lines' = << >>

(***************************************************************************)
(* Notifications.  A call is logged when http.Post is made.  What the sink  *)
(* answers is only logged by the program; the one answer that changes what *)
(* it does is the transport error of the first summary message.            *)
(***************************************************************************)
Shown(reason) == IF reason = << >> THEN NoIssue ELSE reason

sendDiscordNotification(log, i, status, reason) ==
  IF webhookURL = "" THEN log
  ELSE Append(log, [op |-> "post", sink |-> "discord", kind |-> "project",
                    i |-> i, status |-> status, reason |-> Shown(reason)])

sendWorkspaceNotification(log, i, status, reason) ==
  IF workspaceWebhookURL = "" THEN log
  ELSE Append(log, [op |-> "post", sink |-> "workspace", kind |-> "project",
                    i |-> i, status |-> status, reason |-> Shown(reason)])

\* sendFinalNotification: an http.Post error of the first block returns
sendFinalNotification(log, outcomes, discordResult, workspaceResult) ==
  LET first == IF webhookURL = "" THEN log
               ELSE Append(log, [op |-> "post", sink |-> "discord",
                                 kind |-> "summary", outcomes |-> outcomes,
                                 failed |-> discordResult = "error"])
      returned == webhookURL # "" /\ discordResult = "error"
  IN  IF returned \/ workspaceWebhookURL = "" THEN first
      ELSE Append(first, [op |-> "post", sink |-> "workspace",
                          kind |-> "summary", outcomes |-> outcomes])

(***************************************************************************)
(* backupProject, step by step.                                            *)
(***************************************************************************)
\* os.Stat, os.RemoveAll and os.MkdirAll of the staging directory
Reset ==
  /\ pc = "reset"
  /\ \E removed \in BOOLEAN, made \in BOOLEAN :
       IF dirExists /\ ~removed
       THEN /\ Return(Failed(project,
                 << "Failed to delete existing backup directory: ", "remove error" >>))
            /\ UNCHANGED dirExists
       ELSE IF ~made
       THEN /\ Return(Failed(project,
                 << "Failed to create backup directory: ", "mkdir error" >>))
            /\ dirExists' = FALSE
       ELSE /\ dirExists' = TRUE
            /\ pc' = "probe"
            /\ UNCHANGED << idx, statuses, lines >>
  /\ calls' = << >>
  /\ UNCHANGED << config, run, now, store, uploaded >>

\* "gsutil ls gs://<bucket>/<env>/<date>/" exits 0 when it lists something
backupExistsInGCS(objects, date, env, transient) ==
  ~transient /\ GsutilLs(objects, Key(env, date) \o Slash) # << >>

\* a listing that matches nothing fails by itself
Transients(objects, prefix) ==
  IF GsutilLs(objects, prefix) = << >> THEN { FALSE } ELSE BOOLEAN

\* variant of Probe: the early return of line 134 is missing
Probe_NoReturn ==
  /\ pc = "probe"
  /\ \E transient \in Transients(store, Key(project, today) \o Slash) :
       LET found == backupExistsInGCS(store, today, project, transient)
       IN  calls' = Append(calls, [op |-> "probe", i |-> idx,
                                   transient |-> transient, found |-> found])
  /\ pc' = "mkdirs"
  /\ UNCHANGED << config, run, now, idx, statuses, lines, dirExists, store, uploaded >>

Probe ==
  /\ pc = "probe"
  /\ \E transient \in Transients(store, Key(project, today) \o Slash) :
       LET found == backupExistsInGCS(store, today, project, transient)
       IN  /\ calls' = Append(calls, [op |-> "probe", i |-> idx,
                                      transient |-> transient, found |-> found])
           /\ IF found
              THEN Return(Complete(project))
              ELSE /\ pc' = "mkdirs"
                   /\ UNCHANGED << idx, statuses, lines >>
  /\ UNCHANGED << config, run, now, dirExists, store, uploaded >>

\* os.MkdirAll of the date folder and of the export folder
Mkdirs ==
  /\ pc = "mkdirs"
  /\ \E dateFolder \in BOOLEAN, exportFolder \in BOOLEAN :
       IF ~dateFolder
       THEN Return(Failed(project, << "Failed to create date folder: ", "mkdir error" >>))
       ELSE IF ~exportFolder
       THEN Return(Failed(project, << "Failed to create export folder: ", "mkdir error" >>))
       ELSE /\ pc' = "export"
            /\ UNCHANGED << idx, statuses, lines >>
  /\ UNCHANGED << config, run, now, dirExists, store, calls, uploaded >>

\* apigeecli organizations export: exit 0, or non-zero with a captured stderr
ExportOk ==
  /\ pc = "export"
  /\ calls' = Append(calls, [op |-> "export", i |-> idx, exit |-> 0])
  /\ pc' = "archive"
  /\ UNCHANGED << config, run, now, idx, statuses, lines, dirExists, store, uploaded >>

ExportError ==
  /\ pc = "export"
  /\ \E stderr \in StderrSamples :
       LET errorMessage == parseError(stderr)
           exported == Append(calls, [op |-> "export", i |-> idx, exit |-> 1,
                                      stderr |-> stderr])
       IN  IF ExportFails(errorMessage)
           THEN /\ calls' = sendWorkspaceNotification(
                              sendDiscordNotification(exported, idx, "Failed", errorMessage),
                              idx, "Failed", errorMessage)
                /\ Return(Failed(project, errorMessage))
           ELSE /\ calls' = exported
                /\ pc' = "archive"
                /\ UNCHANGED << idx, statuses, lines >>
  /\ UNCHANGED << config, run, now, dirExists, store, uploaded >>

\* zipFolder
Archive ==
  /\ pc = "archive"
  /\ \E ok \in BOOLEAN :
       /\ calls' = Append(calls, [op |-> "zip", i |-> idx, ok |-> ok])
       /\ IF ok
          THEN /\ pc' = "upload"
               /\ UNCHANGED << idx, statuses, lines >>
          ELSE Return(Failed(project, << "Failed to zip folder: ", "exit status 1" >>))
  /\ UNCHANGED << config, run, now, dirExists, store, uploaded >>

\* uploadToGCS: gsutil cp <zipFile> gs://<bucket>/<env>/<base of zipFile>
Upload ==
  /\ pc = "upload"
  /\ \E ok \in BOOLEAN :
       LET key == Key(project, ArchiveName(project, today))
       IN  /\ calls' = Append(calls, [op |-> "cp", i |-> idx, key |-> key, ok |-> ok])
           /\ IF ok
              THEN /\ store' = store \cup { key }
                   /\ uploaded' = uploaded \cup
                        { [project |-> project, date |-> today, run |-> run] }
                   /\ pc' = "notify"
                   /\ UNCHANGED << idx, statuses, lines >>
              ELSE /\ Return(Failed(project,
                        << "Failed to upload backup to GCS: ", "exit status 1" >>))
                   /\ UNCHANGED << store, uploaded >>
  /\ UNCHANGED << config, run, now, dirExists >>

\* the per-project Complete notifications
Notify ==
  /\ pc = "notify"
  /\ calls' = sendWorkspaceNotification(
                sendDiscordNotification(calls, idx, "Complete", NoIssue),
                idx, "Complete", NoIssue)
  /\ pc' = "cleanup"
  /\ UNCHANGED << config, run, now, idx, statuses, lines, dirExists, store, uploaded >>

(***************************************************************************)
(* cleanupOldBackups.                                                      *)
(***************************************************************************)
\* strings.Split(output, "\n"): the lines and the empty string after the last
SplitLines(listing) == listing \o << << >> >>

\* variant of RetentionFailure: the status is left as it was
RetentionFailure_NotDowngraded(p) == Complete(p)

\* lines 202-206: a cleanup error makes the outcome Failed
RetentionFailure(p) ==
  Failed(p, << "Failed to clean up old backups: ", "failed to list GCS bucket: ",
               "exit status 1" >>)

CleanupList ==
  /\ pc = "cleanup"
  /\ \E transient \in Transients(store, project \o Slash) :
       LET output == GsutilLs(store, project \o Slash)
           ok     == ~transient /\ output # << >>
       IN  /\ calls' = Append(calls, [op |-> "ls", i |-> idx, ok |-> ok,
                                      listing |-> IF ok THEN output ELSE << >>,
                                      cutoff |-> cutoffDate])
           /\ IF ok
              THEN /\ lines' = SplitLines(output)
                   /\ pc' = "sweep"
                   /\ UNCHANGED << idx, statuses >>
              ELSE Return(RetentionFailure(project))
  /\ UNCHANGED << config, run, now, dirExists, store, uploaded >>

\* the range loop has visited its last line: cleanupOldBackups returns nil
AfterLine ==
  IF Len(lines) > 1
  THEN /\ lines' = Tail(lines)
       /\ UNCHANGED << pc, idx, statuses >>
  ELSE Return(Complete(project))

\* one pass of the loop over lines, for a line that is skipped
CleanupSkip ==
  /\ pc = "sweep"
  /\ \/ lines[1] = << >>
     \/ /\ lines[1] # << >>
        /\ ~isOlderThanRetention(lines[1], cutoffDate, project).panic
        /\ ~isOlderThanRetention(lines[1], cutoffDate, project).older
  /\ AfterLine
  /\ UNCHANGED << config, run, now, dirExists, store, calls, uploaded >>

\* one pass of the loop for a line that is deleted: gsutil rm <line>
CleanupDelete ==
  /\ pc = "sweep"
  /\ lines[1] # << >>
  /\ isOlderThanRetention(lines[1], cutoffDate, project).older
  /\ \E ok \in BOOLEAN :
       /\ calls' = Append(calls, [op |-> "rm", i |-> idx, line |-> lines[1], ok |-> ok])
       /\ store' = IF ok THEN store \ { KeyOfUrl(lines[1]) } ELSE store
  /\ AfterLine
  /\ UNCHANGED << config, run, now, dirExists, uploaded >>

\* one pass of the loop for a line whose slice is out of range: the process dies
CleanupPanic ==
  /\ pc = "sweep"
  /\ lines[1] # << >>
  /\ isOlderThanRetention(lines[1], cutoffDate, project).panic
  /\ pc' = "panic"
  /\ UNCHANGED << config, run, now, idx, statuses, lines, dirExists, store, calls,
                  uploaded >>

(***************************************************************************)
(* main after the loop, and the next invocation of the program.            *)
(***************************************************************************)
Final ==
  /\ pc = "final"
  /\ \E discordResult \in PostResults, workspaceResult \in PostResults :
       calls' = sendFinalNotification(<< >>, statuses, discordResult, workspaceResult)
  /\ pc' = "done"
  /\ UNCHANGED << config, run, now, idx, statuses, lines, dirExists, store, uploaded >>

\* the program is started again, with the same command line, not earlier
StartRun ==
  /\ pc \in { "done", "panic" }
  /\ run < MaxRuns
  /\ run' = run + 1
  /\ now' \in { t \in Clock : t >= now }
  /\ pc' = IF projects = << >> THEN "final" ELSE "reset"
  /\ idx' = 1
  /\ statuses' = << >>
  /\ lines' = << >>
  /\ calls' = << >>
  /\ UNCHANGED << config, dirExists, store, uploaded >>

\* one invocation of the program
Run ==
  \/ Reset
  \/ Probe
  \/ Mkdirs
  \/ ExportOk
  \/ ExportError
  \/ Archive
  \/ Upload
  \/ Notify
  \/ CleanupList
  \/ CleanupSkip
  \/ CleanupDelete
  \/ CleanupPanic
  \/ Final

\* invocations one after the other, over the same bucket
Next ==
  \/ Run
  \/ StartRun

\* one invocation, from every input
Spec == Init /\ [][Run]_vars

\* the program run again, with both sinks configured and the default retention
InitRerun ==
  /\ Init
  /\ retentionDays = defaultRetentionDays
  /\ webhookURL # ""
  /\ workspaceWebhookURL # ""
  /\ Cardinality(store) <= 1

SpecRerun == InitRerun /\ [][Next]_vars

(***************************************************************************)
(* Reading the call log.                                                   *)
(***************************************************************************)
Logged(op) == { k \in DOMAIN calls : calls[k].op = op }

ProjectPosts(status) ==
  { k \in Logged("post") : calls[k].kind = "project" /\ calls[k].status = status }

SummaryPosts(sink) ==
  { k \in Logged("post") : calls[k].kind = "summary" /\ calls[k].sink = sink }

\* backupProject has returned for position i and the log is still that call's
Returned(i) == pc \in { "reset", "final" } /\ idx = i + 1 /\ Len(statuses) >= i

Range(f) == { f[k] : k \in DOMAIN f }

\* the date a listed path carries under backup_<p>_<YYYY-MM-DD>.zip, if any
ConventionDate(line, p) ==
  LET base == Base(line)
      pre  == Backup_ \o p \o << "_" >>
  IN  IF /\ HasPrefix(base, pre)
         /\ Len(base) = Len(pre) + 10 + Len(DotZip)
         /\ Slice(base, Len(base) - Len(DotZip), Len(base)) = DotZip
      THEN ParseDate(Slice(base, Len(pre), Len(base) - Len(DotZip)))
      ELSE [err |-> TRUE, t |-> 0]

\* the listed paths the retention rule asks to delete
Eligible(listing, p, cutoff) ==
  { line \in Range(listing) :
      ~ConventionDate(line, p).err /\ ConventionDate(line, p).t < cutoff }

Attempted == { calls[k].line : k \in Logged("rm") }

SweepOver == pc # "sweep"

(***************************************************************************)
(* C1: the run loop produces exactly one outcome record per project-list   *)
(* entry, in file order; no failure inside one project's processing        *)
(* escapes backupProject, and the loop reaches the final summary.          *)
(***************************************************************************)
C1_OneOutcomePerProject ==
  /\ pc # "panic"
  /\ Len(statuses) <= Len(projects)
  /\ \A k \in DOMAIN statuses : statuses[k].Project = projects[k]
  /\ pc \in { "final", "done" } => Len(statuses) = Len(projects)
  /\ pc \notin { "final", "done" } => Len(statuses) = idx - 1

(***************************************************************************)
(* C2: when the existence probe returns true, backupProject returns        *)
(* {Complete, "no issue"} and makes no export, archive, upload,            *)
(* notification or retention call for that project.                        *)
(***************************************************************************)
C2_ExistingBackupSkips ==
  \A k \in Logged("probe") :
    calls[k].found =>
      /\ Returned(calls[k].i)
      /\ statuses[calls[k].i] =
           [Project |-> projects[calls[k].i], Status |-> "Complete", Reason |-> NoIssue]
      /\ \A j \in DOMAIN calls :
           calls[j].op \notin { "export", "zip", "cp", "post", "ls", "rm" }

C2_Witness ==
  /\ \E k \in Logged("probe") : calls[k].found /\ Returned(calls[k].i)
  /\ webhookURL # ""
  /\ workspaceWebhookURL # ""

(***************************************************************************)
(* C3: once a run has uploaded today's archive of a project, a second run  *)
(* on the same day over the same bucket finds it through the probe and     *)
(* makes no export and no upload for that project (unless the listing      *)
(* itself failed).                                                         *)
(***************************************************************************)
C3_RerunIsNoOp ==
  \A u \in uploaded :
    ( /\ u.run < run
      /\ u.date = today
      /\ Key(u.project, ArchiveName(u.project, u.date)) \in store )
    => \A k \in Logged("export") \cup Logged("cp") :
         projects[calls[k].i] = u.project =>
           \E j \in Logged("probe") : calls[j].transient

(***************************************************************************)
(* C4: a non-zero export whose error stream is a structured error with     *)
(* status FAILED_PRECONDITION does not fail the project and sends no       *)
(* Failed notification; processing goes on to archive and upload, and the  *)
(* outcome is Failed only if a later step fails.                           *)
(***************************************************************************)
StatusIsPrecondition(stderr) ==
  /\ stderr.json.valid
  /\ stderr.json.errorIsObject
  /\ stderr.json.hasStatus
  /\ stderr.json.status = FailedPrecondition

FailedExports == { k \in Logged("export") : calls[k].exit # 0 }

C4_PreconditionContinues ==
  \A k \in FailedExports :
    StatusIsPrecondition(calls[k].stderr) =>
      /\ ProjectPosts("Failed") = {}
      /\ k = Len(calls) => pc = "archive"
      /\ pc = "upload" => \E j \in Logged("zip") : j > k /\ calls[j].ok
      /\ Returned(calls[k].i) =>
           /\ Logged("zip") # {}
           /\ statuses[calls[k].i].Status = "Failed" =>
                \E j \in Logged("zip") \cup Logged("cp") \cup Logged("ls") :
                  j > k /\ ~calls[j].ok

C4_Witness ==
  \E k \in FailedExports :
    /\ StatusIsPrecondition(calls[k].stderr)
    /\ \E j \in Logged("cp") : j > k /\ calls[j].ok
    /\ Returned(calls[k].i)
    /\ statuses[calls[k].i].Status = "Complete"

(***************************************************************************)
(* C5: a non-zero export ends the project there: the outcome is Failed     *)
(* with the classified message as reason, a Failed notification goes to    *)
(* each configured sink, and there is no archive, upload, Complete         *)
(* notification or retention sweep.                                        *)
(***************************************************************************)
FailedAtExport(k) ==
  /\ Returned(calls[k].i)
  /\ statuses[calls[k].i] =
       [Project |-> projects[calls[k].i], Status |-> "Failed",
        Reason |-> parseError(calls[k].stderr)]
  /\ webhookURL # "" =>
       \E j \in ProjectPosts("Failed") : j > k /\ calls[j].sink = "discord"
  /\ workspaceWebhookURL # "" =>
       \E j \in ProjectPosts("Failed") : j > k /\ calls[j].sink = "workspace"
  /\ ProjectPosts("Complete") = {}
  /\ \A j \in DOMAIN calls : calls[j].op \notin { "zip", "cp", "ls", "rm" }

\* C5 as claimed: for every error stream other than a structured error with
\* status FAILED_PRECONDITION
C5_OnlyStatusSentinelContinues ==
  \A k \in FailedExports :
    ~StatusIsPrecondition(calls[k].stderr) => FailedAtExport(k)

\* the error streams whose classified message names FAILED_PRECONDITION
NamesPrecondition(stderr) ==
  LET structured == stderr.json.valid /\ stderr.json.errorIsObject
  IN  \/ StatusIsPrecondition(stderr)
      \/ /\ structured
         /\ stderr.json.hasMessage
         /\ Contains(stderr.json.message, FailedPrecondition)
      \/ /\ ~(structured /\ stderr.json.hasMessage)
         /\ ~Contains(stderr.text, UnauthorizedText)
         /\ Contains(stderr.text, FailedPrecondition)

\* C5 as amended: for every error stream whose classified message does not
\* contain FAILED_PRECONDITION; the others continue to the archive step
C5_UnnamedPreconditionFails ==
  \A k \in FailedExports :
    IF NamesPrecondition(calls[k].stderr)
    THEN /\ ProjectPosts("Failed") = {}
         /\ k = Len(calls) => pc = "archive"
    ELSE FailedAtExport(k)

C5_Witness ==
  /\ webhookURL # ""
  /\ workspaceWebhookURL # ""
  /\ \E k \in FailedExports :
       /\ calls[k].stderr.json.hasMessage
       /\ ~calls[k].stderr.json.hasStatus
       /\ ~NamesPrecondition(calls[k].stderr)
       /\ Returned(calls[k].i)
       /\ Cardinality(ProjectPosts("Failed")) = 2

(***************************************************************************)
(* C6: for every listing and every retentionDays, Cleanup issues a delete  *)
(* for exactly the listed objects named backup_<project>_<date>.zip whose  *)
(* date is strictly before the cutoff, and for no other.                   *)
(***************************************************************************)
C6_DeletesExactlyTheOld ==
  \A k \in Logged("ls") :
    calls[k].ok =>
      LET old == Eligible(calls[k].listing, projects[calls[k].i], calls[k].cutoff)
      IN  /\ Attempted \subseteq old
          /\ SweepOver => Attempted = old

(***************************************************************************)
(* C7: a listed path whose basename does not parse under the naming        *)
(* convention is skipped, never deleted, and the sweep goes on.            *)
(***************************************************************************)
C7_UnparsableIsSkipped ==
  \A k \in Logged("ls") :
    \A line \in Range(calls[k].listing) :
      ConventionDate(line, projects[calls[k].i]).err =>
        /\ line \notin Attempted
        /\ ~(pc = "panic" /\ lines # << >> /\ lines[1] = line)

(***************************************************************************)
(* C8: the summary goes out after all projects, exactly once to each       *)
(* configured sink, one line per outcome in order; a failure on one sink   *)
(* does not keep it from the other; nothing goes to an unconfigured sink.  *)
(***************************************************************************)
SummarySent(sink, url) ==
  IF url = ""
  THEN SummaryPosts(sink) = {}
  ELSE /\ Cardinality(SummaryPosts(sink)) = 1
       /\ \A k \in SummaryPosts(sink) : calls[k].outcomes = statuses

C8_SummaryToEachSink ==
  /\ \A k \in Logged("post") :
       calls[k].kind = "summary" => pc = "done" /\ Len(statuses) = Len(projects)
  /\ pc = "done" =>
       /\ SummarySent("discord", webhookURL)
       /\ SummarySent("workspace", workspaceWebhookURL)

(***************************************************************************)
(* C9: after a successful upload the Complete notification goes to each    *)
(* configured sink before the retention sweep starts; a failed sweep makes *)
(* the outcome Failed with the retention error as reason, and the Complete *)
(* notification stays, followed by no Failed notification.                 *)
(***************************************************************************)
CompleteSentBefore(k, sink, url) ==
  url # "" =>
    \E j \in ProjectPosts("Complete") :
      j < k /\ calls[j].sink = sink /\ calls[j].i = calls[k].i

C9_RetentionFailureAfterComplete ==
  /\ pc = "cleanup" =>
       /\ webhookURL # "" =>
            \E j \in ProjectPosts("Complete") : calls[j].sink = "discord"
       /\ workspaceWebhookURL # "" =>
            \E j \in ProjectPosts("Complete") : calls[j].sink = "workspace"
  /\ \A k \in Logged("ls") :
       /\ CompleteSentBefore(k, "discord", webhookURL)
       /\ CompleteSentBefore(k, "workspace", workspaceWebhookURL)
       /\ \E j \in Logged("cp") : j < k /\ calls[j].ok
       /\ ~calls[k].ok =>
            /\ Returned(calls[k].i)
            /\ statuses[calls[k].i].Status = "Failed"
            /\ statuses[calls[k].i].Reason[1] = "Failed to clean up old backups: "
            /\ ProjectPosts("Failed") = {}
  /\ \A k \in Logged("post") :
       calls[k].kind = "summary" => calls[k].outcomes = statuses

C9_Witness ==
  /\ webhookURL # ""
  /\ workspaceWebhookURL # ""
  /\ \E k \in Logged("ls") :
       /\ ~calls[k].ok
       /\ Returned(calls[k].i)
       /\ Cardinality(ProjectPosts("Complete")) = 2

(***************************************************************************)
(* C10: a failed delete does not stop the sweep: every eligible listed     *)
(* object gets its delete attempt and Cleanup returns success; Cleanup     *)
(* returns an error, having attempted no delete, exactly when the listing  *)
(* fails.                                                                  *)
(***************************************************************************)
C10_DeletesAreIndependent ==
  \A k \in Logged("ls") :
    IF calls[k].ok
    THEN /\ SweepOver =>
              /\ Returned(calls[k].i)
              /\ statuses[calls[k].i].Status = "Complete"
         /\ Returned(calls[k].i) =>
              Eligible(calls[k].listing, projects[calls[k].i], calls[k].cutoff)
                \subseteq Attempted
    ELSE /\ Attempted = {}
         /\ Returned(calls[k].i)
         /\ statuses[calls[k].i].Status = "Failed"
====
